---- MODULE Spec2Model ----
(***************************************************************************)
(* VibeBoard server: the in-memory moodboard store (server/storage.ts),    *)
(* the request handlers and the external-service adapters (routes).        *)
(*                                                                         *)
(* Strings are sequences of one-character strings so that length,          *)
(* lower-casing, trimming and substring search are computed as the code    *)
(* computes them.  The process is a single-threaded event loop: every      *)
(* action is the code that runs between two suspension points (awaits).    *)
(***************************************************************************)
EXTENDS Integers, Sequences, FiniteSets, TLC

(* ------------------------------ bounds -------------------------------- *)

\* number of requests the model lets arrive
MaxReq == 2

(* --------------------------- string helpers --------------------------- *)

LowerAlphabet ==
  <<"a","b","c","d","e","f","g","h","i","j","k","l","m",
    "n","o","p","q","r","s","t","u","v","w","x","y","z">>

UpperAlphabet ==
  <<"A","B","C","D","E","F","G","H","I","J","K","L","M",
    "N","O","P","Q","R","S","T","U","V","W","X","Y","Z">>

\* String.prototype.toLowerCase on one ASCII character
lowerChar(c) ==
  IF \E i \in 1..26 : UpperAlphabet[i] = c
    THEN LowerAlphabet[CHOOSE i \in 1..26 : UpperAlphabet[i] = c]
    ELSE c

\* String.prototype.toLowerCase
toLowerCase(s) == [i \in 1..Len(s) |-> lowerChar(s[i])]

\* String.prototype.includes
includes(s, sub) ==
  \E i \in 0..(Len(s) - Len(sub)) : SubSeq(s, i + 1, i + Len(sub)) = sub

\* the characters String.prototype.trim removes
WhiteSpace == {" ", "\t", "\n"}

RECURSIVE trimStart(_)
trimStart(s) ==
  IF s # <<>> /\ Head(s) \in WhiteSpace THEN trimStart(Tail(s)) ELSE s

RECURSIVE trimEnd(_)
trimEnd(s) ==
  IF s # <<>> /\ s[Len(s)] \in WhiteSpace
    THEN trimEnd(SubSeq(s, 1, Len(s) - 1))
    ELSE s

\* String.prototype.trim
trim(s) == trimEnd(trimStart(s))

\* s.split(' ')[0]: the text before the first space character
RECURSIVE firstSpaceToken(_)
firstSpaceToken(s) ==
  IF s = <<>> \/ Head(s) = " " THEN <<>>
  ELSE <<Head(s)>> \o firstSpaceToken(Tail(s))

isLowerLetter(c) == \E i \in 1..26 : LowerAlphabet[i] = c

\* s.replace(/[^a-z]/g, '')
RECURSIVE stripNonLower(_)
stripNonLower(s) ==
  IF s = <<>> THEN <<>>
  ELSE (IF isLowerLetter(Head(s)) THEN <<Head(s)>> ELSE <<>>)
         \o stripNonLower(Tail(s))

(* ---------------------------- mood tables ----------------------------- *)

\* a JavaScript array of strings
JsArray(items) == [type |-> "array", items |-> items]
\* what a property lookup finds for "constructor" on a plain object
ObjectConstructor == [type |-> "function", items |-> <<>>]
\* what a property lookup finds for "__proto__" on a plain object
ObjectPrototype == [type |-> "object", items |-> <<>>]

moodColorMap == <<
  [key |-> <<"h","a","p","p","y">>,
   colors |-> <<"#FFA726", "#66BB6A", "#42A5F5", "#FFEB3B">>],
  [key |-> <<"p","e","a","c","e","f","u","l">>,
   colors |-> <<"#81C784", "#64B5F6", "#A5D6A7", "#E1F5FE">>],
  [key |-> <<"e","x","c","i","t","e","d">>,
   colors |-> <<"#FF7043", "#FFA726", "#FFCA28", "#EC407A">>],
  [key |-> <<"s","a","d">>,
   colors |-> <<"#90A4AE", "#78909C", "#B0BEC5", "#CFD8DC">>],
  [key |-> <<"a","n","g","r","y">>,
   colors |-> <<"#E53935", "#FF5722", "#F44336", "#D32F2F">>],
  [key |-> <<"a","n","x","i","o","u","s">>,
   colors |-> <<"#9E9E9E", "#78909C", "#546E7A", "#607D8B">>],
  [key |-> <<"m","o","t","i","v","a","t","e","d">>,
   colors |-> <<"#4CAF50", "#2196F3", "#FF9800", "#9C27B0">>],
  [key |-> <<"c","r","e","a","t","i","v","e">>,
   colors |-> <<"#9C27B0", "#E91E63", "#FF5722", "#607D8B">>],
  [key |-> <<"n","o","s","t","a","l","g","i","c">>,
   colors |-> <<"#8D6E63", "#A1887F", "#BCAAA4", "#D7CCC8">>],
  [key |-> <<"d","r","e","a","m","y">>,
   colors |-> <<"#CE93D8", "#F8BBD9", "#C5CAE9", "#DCEDC8">> ] >>

moodPlaylistMap == <<
  [key |-> <<"h","a","p","p","y">>, id |-> "37i9dQZF1DX0XUsuxWHRQd"],
  [key |-> <<"p","e","a","c","e","f","u","l">>, id |-> "37i9dQZF1DWZqd5JICZI0u"],
  [key |-> <<"e","x","c","i","t","e","d">>, id |-> "37i9dQZF1DX32NsLKyzScr"],
  [key |-> <<"s","a","d">>, id |-> "37i9dQZF1DX3YSRoSdA634"],
  [key |-> <<"m","o","t","i","v","a","t","e","d">>, id |-> "37i9dQZF1DXdxcBWuJkbcy"],
  [key |-> <<"c","r","e","a","t","i","v","e">>, id |-> "37i9dQZF1DX0SM0LYsmbMT"],
  [key |-> <<"n","o","s","t","a","l","g","i","c">>, id |-> "37i9dQZF1DX1s9knjP51Oa"],
  [key |-> <<"d","r","e","a","m","y">>, id |-> "37i9dQZF1DX3Sp0P28SIer"] >>

\* the lower-case property names every plain object inherits
ConstructorKey == <<"c","o","n","s","t","r","u","c","t","o","r">>
ProtoKey == <<"_","_","p","r","o","t","o","_","_">>

DefaultColors == <<"#42A5F5", "#66BB6A", "#FFA726", "#AB47BC">>
DefaultPlaylist == "37i9dQZF1DX0XUsuxWHRQd"

\* the partial match with `lowerMood.includes(key)` alone
firstPartial_containsOnly(table, lowerMood) ==
  LET hits == {i \in 1..Len(table) : includes(lowerMood, table[i].key)}
  IN IF hits = {} THEN 0 ELSE CHOOSE i \in hits : \A j \in hits : i <= j

\* the index of the first table entry (in Object.entries order) whose key
\* contains the mood or is contained in it; 0 when there is none
firstPartial(table, lowerMood) ==
  LET hits == {i \in 1..Len(table) :
                 includes(lowerMood, table[i].key)
                   \/ includes(table[i].key, lowerMood)}
  IN IF hits = {} THEN 0 ELSE CHOOSE i \in hits : \A j \in hits : i <= j

\* getColorsForMood without `mood.toLowerCase()`
getColorsForMood_noLowerCase(mood) ==
  LET lowerMood == mood
      exact == {i \in 1..Len(moodColorMap) : moodColorMap[i].key = lowerMood}
      part == firstPartial(moodColorMap, lowerMood)
  IN IF exact # {} THEN JsArray(moodColorMap[CHOOSE i \in exact : TRUE].colors)
     ELSE IF lowerMood = ConstructorKey THEN ObjectConstructor
     ELSE IF lowerMood = ProtoKey THEN ObjectPrototype
     ELSE IF part # 0 THEN JsArray(moodColorMap[part].colors)
     ELSE JsArray(DefaultColors)

getColorsForMood(mood) ==
  LET lowerMood == toLowerCase(mood)
      exact == {i \in 1..Len(moodColorMap) : moodColorMap[i].key = lowerMood}
      part == firstPartial(moodColorMap, lowerMood)
  IN IF exact # {} THEN JsArray(moodColorMap[CHOOSE i \in exact : TRUE].colors)
     ELSE IF lowerMood = ConstructorKey THEN ObjectConstructor
     ELSE IF lowerMood = ProtoKey THEN ObjectPrototype
     ELSE IF part # 0 THEN JsArray(moodColorMap[part].colors)
     ELSE JsArray(DefaultColors)

getPlaylistForMood(mood) ==
  LET lowerMood == toLowerCase(mood)
      exact == {i \in 1..Len(moodPlaylistMap) : moodPlaylistMap[i].key = lowerMood}
      part == firstPartial(moodPlaylistMap, lowerMood)
  IN IF exact # {} THEN moodPlaylistMap[CHOOSE i \in exact : TRUE].id
     ELSE IF lowerMood = ConstructorKey THEN "function Object"
     ELSE IF lowerMood = ProtoKey THEN "[object Object]"
     ELSE IF part # 0 THEN moodPlaylistMap[part].id
     ELSE DefaultPlaylist

(* ------------------------- shared/schema.ts --------------------------- *)

\* z.string().max(100)
MaxMoodLen == 100

\* a JSON value of a request body field: a string, a number or a missing field
JsString(s) == [t |-> "string", s |-> s]
JsNumber == [t |-> "number", s |-> <<>>]
JsMissing == [t |-> "undefined", s |-> <<>>]

\* the schema without .min(1)
generateMoodboardSchema_noMin(body) ==
  IF body.t = "undefined" THEN "Required"
  ELSE IF body.t # "string" THEN "Expected string, received number"
  ELSE IF Len(body.s) > MaxMoodLen THEN "String must contain at most 100 character(s)"
  ELSE ""

\* generateMoodboardSchema.parse(req.body): the issue it throws, "" when it passes
generateMoodboardSchema(body) ==
  IF body.t = "undefined" THEN "Required"
  ELSE IF body.t # "string" THEN "Expected string, received number"
  ELSE IF Len(body.s) < 1 THEN "String must contain at least 1 character(s)"
  ELSE IF Len(body.s) > MaxMoodLen THEN "String must contain at most 100 character(s)"
  ELSE ""

\* analyzeMoodFromImageSchema.parse(req.body): the issue it throws, "" when it passes
analyzeMoodFromImageSchema(body) ==
  IF body.t = "undefined" THEN "Required"
  ELSE IF body.t # "string" THEN "Expected string, received number"
  ELSE ""

(* ------------------------- external adapters -------------------------- *)

\* the state of a promise: pending on a step, fulfilled with v, or rejected with err
Pending(step) == [st |-> step, v |-> <<>>, err |-> ""]
Fulfilled(v) == [st |-> "fulfilled", v |-> v, err |-> ""]
Rejected(err) == [st |-> "rejected", v |-> <<>>, err |-> err]
NoPromise == [st |-> "none", v |-> <<>>, err |-> ""]

FallbackImages == <<
  "https://images.unsplash.com/photo-1506905925346-21bda4d32df4?ixlib=rb-4.0.3&auto=format&fit=crop&w=800&h=600",
  "https://images.unsplash.com/photo-1441974231531-c6227db76b6e?ixlib=rb-4.0.3&auto=format&fit=crop&w=800&h=600",
  "https://images.unsplash.com/photo-1481627834876-b7833e8f5570?ixlib=rb-4.0.3&auto=format&fit=crop&w=800&h=600",
  "https://images.unsplash.com/photo-1495474472287-4d71bcdd2085?ixlib=rb-4.0.3&auto=format&fit=crop&w=800&h=600" >>

\* photo.urls.regular of the i-th photo of a search response
PhotoUrls == <<"https://img/1", "https://img/2", "https://img/3", "https://img/4",
               "https://img/5", "https://img/6", "https://img/7", "https://img/8">>

\* per_page=4 of the search request
PerPage == 4

\* the numbers of photos a search response holds: none found, fewer than a
\* page, or a full page
ResultSizes == {0, 2, PerPage}

\* how `await fetch(...)` can end: it throws, or answers with a status
FetchOutcomes == {"networkError", "notOk", "ok"}

\* how `await response.json()` can end: it throws, the body has no results list,
\* a photo has no urls, or the body holds n photos
JsonOutcomes ==
  {[kind |-> "invalidJson", n |-> 0], [kind |-> "noResults", n |-> 0],
   [kind |-> "badPhoto", n |-> 1]}
    \cup {[kind |-> "results", n |-> k] : k \in ResultSizes}

\* fetchUnsplashImages with the credential check inside the try block
fetchUnsplashImagesCall_insideTry(key) ==
  IF key = "" THEN Fulfilled(FallbackImages)
  ELSE Pending("fetch")

\* fetchUnsplashImages up to its first await
fetchUnsplashImagesCall(key) ==
  IF key = "" THEN Rejected("Unsplash API key not configured")
  ELSE Pending("fetch")

\* fetchUnsplashImages that sends the request again when it failed
fetchUnsplashImagesOnFetch_retry(outcome) ==
  IF outcome = "ok" THEN Pending("json") ELSE Pending("fetch")

\* fetchUnsplashImages from `await fetch` to its next await or its return
fetchUnsplashImagesOnFetch(outcome) ==
  IF outcome = "ok" THEN Pending("json") ELSE Fulfilled(FallbackImages)

\* fetchUnsplashImages with `data.results.map` after the try block
fetchUnsplashImagesOnJson_mapOutsideTry(data) ==
  IF data.kind = "results"
    THEN Fulfilled([i \in 1..data.n |-> PhotoUrls[i]])
    ELSE IF data.kind = "invalidJson" THEN Fulfilled(FallbackImages)
    ELSE Rejected("Cannot read properties of undefined")

\* fetchUnsplashImages that maps from the second result on
fetchUnsplashImagesOnJson_skipsFirst(data) ==
  IF data.kind = "results"
    THEN Fulfilled([i \in 1..(IF data.n = 0 THEN 0 ELSE data.n - 1) |-> PhotoUrls[i + 1]])
    ELSE Fulfilled(FallbackImages)

\* fetchUnsplashImages from `await response.json()` to its return
fetchUnsplashImagesOnJson(data) ==
  IF data.kind = "results"
    THEN Fulfilled([i \in 1..data.n |-> PhotoUrls[i]])
    ELSE Fulfilled(FallbackImages)

\* how openai.chat.completions.create can end: it throws, the response has no
\* choices, the message content is null, or the content is a text
ChatThrow == [kind |-> "throw", content |-> <<>>]
ChatNoChoices == [kind |-> "noChoices", content |-> <<>>]
ChatNull == [kind |-> "nullContent", content |-> <<>>]
ChatContent(c) == [kind |-> "content", content |-> c]

QuoteTexts == {<<>>, <<" ">>, <<" ", "B", "e", ".", "\n">>}
QuoteOutcomes ==
  {ChatThrow, ChatNoChoices, ChatNull} \cup {ChatContent(c) : c \in QuoteTexts}

VisionTexts ==
  {<<>>, <<" ">>, <<"E","x","c","i","t","e","d","!">>,
   <<" ","s","a","d"," ","a","n","d"," ">>, <<"!","!">>,
   <<"C","a","l","m","\n","a","n","d">>, <<"s","a","d","\t","o","r">>}
VisionOutcomes ==
  {ChatThrow, ChatNoChoices, ChatNull} \cup {ChatContent(c) : c \in VisionTexts}

fallbackQuote(mood) ==
  <<"\"Every ">> \o mood
     \o <<" moment is a step toward growth and self-discovery.\"">>

\* generateAIQuote up to its await
generateAIQuoteCall(key) ==
  IF key = "" THEN Rejected("OpenAI API key not configured")
  ELSE Pending("chat")

\* generateAIQuote without the `|| fallback` after `content?.trim()`: an absent or
\* empty content is returned as it is
generateAIQuoteOnCompletion_noOrFallback(mood, outcome) ==
  IF outcome.kind \in {"content", "nullContent"}
    THEN Fulfilled(trim(outcome.content))
    ELSE Fulfilled(fallbackQuote(mood))

\* generateAIQuote from its await to its return
generateAIQuoteOnCompletion(mood, outcome) ==
  IF outcome.kind = "content" /\ trim(outcome.content) # <<>>
    THEN Fulfilled(trim(outcome.content))
    ELSE Fulfilled(fallbackQuote(mood))

Peaceful == <<"p","e","a","c","e","f","u","l">>

\* analyzeMoodFromImage up to its await
analyzeMoodFromImageCall(key) ==
  IF key = "" THEN Rejected("OpenAI API key not configured")
  ELSE Pending("chat")

\* analyzeMoodFromImage without its catch block: what the call or the reading of
\* `choices[0].message` throws rejects the promise
analyzeMoodFromImageOnCompletion_noCatch(outcome) ==
  IF outcome.kind \in {"throw", "noChoices"} THEN Rejected("Failed to analyze mood")
  ELSE LET lowered == IF outcome.kind = "content"
                        THEN toLowerCase(trim(outcome.content)) ELSE <<>>
           detectedMood == IF lowered = <<>> THEN Peaceful ELSE lowered
       IN Fulfilled(stripNonLower(firstSpaceToken(detectedMood)))

\* analyzeMoodFromImage from its await to its return
analyzeMoodFromImageOnCompletion(outcome) ==
  IF outcome.kind \in {"throw", "noChoices"} THEN Fulfilled(Peaceful)
  ELSE LET lowered == IF outcome.kind = "content"
                        THEN toLowerCase(trim(outcome.content)) ELSE <<>>
           detectedMood == IF lowered = <<>> THEN Peaceful ELSE lowered
       IN Fulfilled(stripNonLower(firstSpaceToken(detectedMood)))

(* ------------------------------- state -------------------------------- *)

VARIABLES
  moodboards,           \* MemStorage.moodboards: id -> Moodboard
  shareIdMap,           \* MemStorage.shareIdMap: shareId -> id
  currentId,            \* MemStorage.currentId
  UNSPLASH_ACCESS_KEY,  \* the image-search credential, "" when not configured
  apiKey,               \* openai.apiKey, "" when not configured
  now,                  \* the clock `new Date()` reads
  req,                  \* the requests: route, input, position, locals, response
  created,              \* the records createMoodboard returned, in call order
  cvInsights,           \* the client's cvInsights: the analysis of the uploaded image
  cvMood                \* the client's cvMood: the label the heuristic gave, "" before

vars == <<moodboards, shareIdMap, currentId, UNSPLASH_ACCESS_KEY, apiKey, now,
          req, created, cvInsights, cvMood>>

Req == 1..MaxReq

\* the strings nanoid(10) can return
ShareIds == {"V1StGXR8_Z", "3IBBoGPr5b"}

\* the :shareId route parameters a lookup is made with
LookupIds == ShareIds \cup {"nonexistent"}

Long(n) == [i \in 1..n |-> "a"]

\* the bodies of POST /api/moodboards requests: req.body.mood
GenerateBodies ==
  {JsMissing, JsNumber, JsString(<<>>), JsString(Long(MaxMoodLen + 1)),
   JsString(<<"h","a","p","p","y">>), JsString(<<"S","a","d">>)}

\* the bodies of POST /api/analyze-mood requests: req.body.image
AnalyzeBodies == {JsMissing, JsNumber, JsString(<<"i","m","g">>)}

\* `undefined` where a Moodboard is expected
Undefined == [undefined |-> TRUE]

\* a request that has not arrived
NoRequest ==
  [route |-> "none", pc |-> "idle", body |-> JsMissing, shareId |-> "",
   images |-> NoPromise, quote |-> NoPromise, detected |-> NoPromise,
   moodboard |-> Undefined, status |-> 0, message |-> "",
   json |-> Undefined, nImage |-> 0, nText |-> 0, nVision |-> 0]

(* --------------------------- server/storage.ts ------------------------- *)

\* Map.prototype.set
MapSet(m, k, v) == [x \in DOMAIN m \cup {k} |-> IF x = k THEN v ELSE m[x]]

\* x || null and x || undefined on a string
orElse(x, other) == IF x = "" THEN other ELSE x

\* createMoodboard with the index entry written after the increment, so that it
\* names the next id
createMoodboard_indexNextId(insertMoodboard, date) ==
  LET id == currentId
      moodboard ==
        [id |-> id,
         mood |-> insertMoodboard.mood,
         quote |-> insertMoodboard.quote,
         images |-> insertMoodboard.images,
         colors |-> insertMoodboard.colors,
         spotifyPlaylistId |-> orElse(insertMoodboard.spotifyPlaylistId, "null"),
         shareId |-> insertMoodboard.shareId,
         createdAt |-> date]
  IN [currentId |-> currentId + 1,
      moodboards |-> MapSet(moodboards, id, moodboard),
      shareIdMap |-> MapSet(shareIdMap, moodboard.shareId, currentId + 1),
      result |-> moodboard]

\* createMoodboard with `this.currentId` read but not incremented
createMoodboard_noIncrement(insertMoodboard, date) ==
  LET id == currentId
      moodboard ==
        [id |-> id,
         mood |-> insertMoodboard.mood,
         quote |-> insertMoodboard.quote,
         images |-> insertMoodboard.images,
         colors |-> insertMoodboard.colors,
         spotifyPlaylistId |-> orElse(insertMoodboard.spotifyPlaylistId, "null"),
         shareId |-> insertMoodboard.shareId,
         createdAt |-> date]
  IN [currentId |-> currentId,
      moodboards |-> MapSet(moodboards, id, moodboard),
      shareIdMap |-> MapSet(shareIdMap, moodboard.shareId, id),
      result |-> moodboard]

\* createMoodboard without the insertion into the share-id index
createMoodboard_noShareIndex(insertMoodboard, date) ==
  LET id == currentId
      moodboard ==
        [id |-> id,
         mood |-> insertMoodboard.mood,
         quote |-> insertMoodboard.quote,
         images |-> insertMoodboard.images,
         colors |-> insertMoodboard.colors,
         spotifyPlaylistId |-> orElse(insertMoodboard.spotifyPlaylistId, "null"),
         shareId |-> insertMoodboard.shareId,
         createdAt |-> date]
  IN [currentId |-> currentId + 1,
      moodboards |-> MapSet(moodboards, id, moodboard),
      shareIdMap |-> shareIdMap,
      result |-> moodboard]

\* createMoodboard that updates the record of a shareId it already knows:
\* `const id = this.shareIdMap.get(shareId) ?? this.currentId++`
createMoodboard_upsert(insertMoodboard, date) ==
  LET id == IF insertMoodboard.shareId \in DOMAIN shareIdMap
              THEN shareIdMap[insertMoodboard.shareId] ELSE currentId
      moodboard ==
        [id |-> id,
         mood |-> insertMoodboard.mood,
         quote |-> insertMoodboard.quote,
         images |-> insertMoodboard.images,
         colors |-> insertMoodboard.colors,
         spotifyPlaylistId |-> orElse(insertMoodboard.spotifyPlaylistId, "null"),
         shareId |-> insertMoodboard.shareId,
         createdAt |-> date]
  IN [currentId |-> IF id = currentId THEN currentId + 1 ELSE currentId,
      moodboards |-> MapSet(moodboards, id, moodboard),
      shareIdMap |-> MapSet(shareIdMap, moodboard.shareId, id),
      result |-> moodboard]

\* createMoodboard that leaves the index entry of a shareId it already knows
createMoodboard_keepsFirstIndex(insertMoodboard, date) ==
  LET id == currentId
      moodboard ==
        [id |-> id,
         mood |-> insertMoodboard.mood,
         quote |-> insertMoodboard.quote,
         images |-> insertMoodboard.images,
         colors |-> insertMoodboard.colors,
         spotifyPlaylistId |-> orElse(insertMoodboard.spotifyPlaylistId, "null"),
         shareId |-> insertMoodboard.shareId,
         createdAt |-> date]
  IN [currentId |-> currentId + 1,
      moodboards |-> MapSet(moodboards, id, moodboard),
      shareIdMap |-> IF moodboard.shareId \in DOMAIN shareIdMap
                       THEN shareIdMap
                       ELSE MapSet(shareIdMap, moodboard.shareId, id),
      result |-> moodboard]

\* createMoodboard: the store after the call and the record it returns
createMoodboard(insertMoodboard, date) ==
  LET id == currentId
      moodboard ==
        [id |-> id,
         mood |-> insertMoodboard.mood,
         quote |-> insertMoodboard.quote,
         images |-> insertMoodboard.images,
         colors |-> insertMoodboard.colors,
         spotifyPlaylistId |-> orElse(insertMoodboard.spotifyPlaylistId, "null"),
         shareId |-> insertMoodboard.shareId,
         createdAt |-> date]
  IN [currentId |-> currentId + 1,
      moodboards |-> MapSet(moodboards, id, moodboard),
      shareIdMap |-> MapSet(shareIdMap, moodboard.shareId, id),
      result |-> moodboard]

getMoodboard(id) ==
  IF id \in DOMAIN moodboards THEN moodboards[id] ELSE Undefined

\* the id is 0 where the code holds undefined: `!id` is true of both
getMoodboardByShareId(shareId) ==
  LET id == IF shareId \in DOMAIN shareIdMap THEN shareIdMap[shareId] ELSE 0
  IN IF id = 0 THEN Undefined ELSE getMoodboard(id)

(* ------------------------------- routes ------------------------------- *)

\* Date.prototype.toISOString
toISOString(date) == [iso |-> date]

\* the MoodboardResponse object both moodboard handlers build
MoodboardResponse(moodboard) ==
  [id |-> moodboard.id,
   mood |-> moodboard.mood,
   quote |-> moodboard.quote,
   images |-> moodboard.images,
   colors |-> moodboard.colors,
   spotifyPlaylistId |-> orElse(moodboard.spotifyPlaylistId, "undefined"),
   shareId |-> moodboard.shareId,
   createdAt |-> toISOString(moodboard.createdAt)]

\* the status code of the catch block of the handlers
CatchStatus == 500
OkStatus == 200
NotFoundStatus == 404

\* requests arrive in slot order
CanArrive(r) ==
  /\ req[r].route = "none"
  /\ IF r = 1 THEN TRUE ELSE req[r - 1].route # "none"

StoreUnchanged == UNCHANGED <<moodboards, shareIdMap, currentId, created>>
ConfigUnchanged == UNCHANGED <<UNSPLASH_ACCESS_KEY, apiKey>>
ClientUnchanged == UNCHANGED <<cvInsights, cvMood>>

\* the handler awaiting the images before it calls generateAIQuote:
\* `const images = await fetchUnsplashImages(mood)` first
PostMoodboards_sequential(r, body) ==
  /\ CanArrive(r)
  /\ LET issue == generateMoodboardSchema(body)
         images == fetchUnsplashImagesCall(UNSPLASH_ACCESS_KEY)
     IN req' = [req EXCEPT ![r] =
          IF issue # ""
            THEN [@ EXCEPT !.route = "generate", !.body = body, !.pc = "done",
                           !.status = CatchStatus, !.message = issue]
            ELSE [@ EXCEPT !.route = "generate", !.body = body, !.pc = "awaitAll",
                           !.images = images,
                           !.nImage = IF images.st = "fetch" THEN 1 ELSE 0]]
  /\ StoreUnchanged /\ ConfigUnchanged /\ ClientUnchanged /\ UNCHANGED now

\* POST /api/moodboards up to `await Promise.all`, or to the catch block
PostMoodboards(r, body) ==
  /\ CanArrive(r)
  /\ LET issue == generateMoodboardSchema(body)
         images == fetchUnsplashImagesCall(UNSPLASH_ACCESS_KEY)
         quote == generateAIQuoteCall(apiKey)
     IN req' = [req EXCEPT ![r] =
          IF issue # ""
            THEN [@ EXCEPT !.route = "generate", !.body = body, !.pc = "done",
                           !.status = CatchStatus, !.message = issue]
            ELSE [@ EXCEPT !.route = "generate", !.body = body, !.pc = "awaitAll",
                           !.images = images, !.quote = quote,
                           !.nImage = IF images.st = "fetch" THEN 1 ELSE 0,
                           !.nText = IF quote.st = "chat" THEN 1 ELSE 0]]
  /\ StoreUnchanged /\ ConfigUnchanged /\ ClientUnchanged /\ UNCHANGED now

\* the number of service calls a promise left pending on `call` stands for
Issued(promise, call) == IF promise.st = call THEN 1 ELSE 0

\* the image-search request of r ends
UnsplashFetchSettles(r, outcome) ==
  /\ req[r].images.st = "fetch"
  /\ req' = [req EXCEPT
       ![r].images = fetchUnsplashImagesOnFetch(outcome),
       ![r].nImage = req[r].nImage + Issued(fetchUnsplashImagesOnFetch(outcome), "fetch")]
  /\ StoreUnchanged /\ ConfigUnchanged /\ ClientUnchanged /\ UNCHANGED now

\* the body of the image-search response of r has been read
UnsplashJsonSettles(r, data) ==
  /\ req[r].images.st = "json"
  /\ req' = [req EXCEPT
       ![r].images = fetchUnsplashImagesOnJson(data),
       ![r].nImage = req[r].nImage + Issued(fetchUnsplashImagesOnJson(data), "fetch")]
  /\ StoreUnchanged /\ ConfigUnchanged /\ ClientUnchanged /\ UNCHANGED now

\* the text-generation request of r ends, its answer kept only when the images
\* are there already
QuoteSettles_needsImages(r, outcome) ==
  /\ req[r].quote.st = "chat"
  /\ req' = [req EXCEPT ![r].quote =
               IF req[r].images.st = "fulfilled"
                 THEN generateAIQuoteOnCompletion(req[r].body.s, outcome)
                 ELSE Fulfilled(fallbackQuote(req[r].body.s))]
  /\ StoreUnchanged /\ ConfigUnchanged /\ ClientUnchanged /\ UNCHANGED now

\* the text-generation request of r ends
QuoteSettles(r, outcome) ==
  /\ req[r].quote.st = "chat"
  /\ req' = [req EXCEPT
       ![r].quote = generateAIQuoteOnCompletion(req[r].body.s, outcome),
       ![r].nText = req[r].nText
                      + Issued(generateAIQuoteOnCompletion(req[r].body.s, outcome), "chat")]
  /\ StoreUnchanged /\ ConfigUnchanged /\ ClientUnchanged /\ UNCHANGED now

\* what Promise.all of the two promises has settled to, "pending" while it has not
PromiseAll(images, quote) ==
  IF images.st = "rejected" THEN Rejected(images.err)
  ELSE IF quote.st = "rejected" THEN Rejected(quote.err)
  ELSE IF images.st = "fulfilled" /\ quote.st = "fulfilled" THEN Fulfilled(<<>>)
  ELSE Pending("all")

\* POST /api/moodboards from `await Promise.all` to `await storage.createMoodboard`,
\* or to the catch block; `new Date()` reads a clock that may have advanced
PostMoodboardsResume(r, shareId, date) ==
  /\ req[r].pc = "awaitAll"
  /\ LET all == PromiseAll(req[r].images, req[r].quote)
         mood == req[r].body.s
         store == createMoodboard(
                    [mood |-> mood,
                     quote |-> req[r].quote.v,
                     images |-> req[r].images.v,
                     colors |-> getColorsForMood(mood),
                     spotifyPlaylistId |-> getPlaylistForMood(mood),
                     shareId |-> shareId],
                    date)
     IN /\ all.st \in {"fulfilled", "rejected"}
        /\ IF all.st = "rejected"
             THEN /\ req' = [req EXCEPT ![r].pc = "done",
                                        ![r].status = CatchStatus,
                                        ![r].message = all.err]
                  /\ StoreUnchanged /\ UNCHANGED now
             ELSE /\ req' = [req EXCEPT ![r].pc = "awaitCreate",
                                        ![r].shareId = shareId,
                                        ![r].moodboard = store.result]
                  /\ moodboards' = store.moodboards
                  /\ shareIdMap' = store.shareIdMap
                  /\ currentId' = store.currentId
                  /\ created' = Append(created, store.result)
                  /\ now' = date
  /\ ConfigUnchanged /\ ClientUnchanged

\* the handler answering with the record created last, its own or not
PostMoodboardsRespond_lastCreated(r) ==
  /\ req[r].pc = "awaitCreate"
  /\ req' = [req EXCEPT ![r].pc = "done", ![r].status = OkStatus,
                        ![r].json = MoodboardResponse(created[Len(created)])]
  /\ StoreUnchanged /\ ConfigUnchanged /\ ClientUnchanged /\ UNCHANGED now

\* the handler when building the response throws after the record is stored:
\* the catch block answers
PostMoodboardsRespond_throws(r) ==
  /\ req[r].pc = "awaitCreate"
  /\ req' = [req EXCEPT ![r].pc = "done", ![r].status = CatchStatus,
                        ![r].message = "Failed to generate moodboard"]
  /\ StoreUnchanged /\ ConfigUnchanged /\ ClientUnchanged /\ UNCHANGED now

\* POST /api/moodboards from `await storage.createMoodboard` to res.json
PostMoodboardsRespond(r) ==
  /\ req[r].pc = "awaitCreate"
  /\ req' = [req EXCEPT ![r].pc = "done", ![r].status = OkStatus,
                        ![r].json = MoodboardResponse(req[r].moodboard)]
  /\ StoreUnchanged /\ ConfigUnchanged /\ ClientUnchanged /\ UNCHANGED now

\* POST /api/analyze-mood up to `await analyzeMoodFromImage`, or to the catch block
PostAnalyzeMood(r, body) ==
  /\ CanArrive(r)
  /\ LET issue == analyzeMoodFromImageSchema(body)
         detected == analyzeMoodFromImageCall(apiKey)
     IN req' = [req EXCEPT ![r] =
          IF issue # ""
            THEN [@ EXCEPT !.route = "analyze", !.body = body, !.pc = "done",
                           !.status = CatchStatus, !.message = issue]
            ELSE [@ EXCEPT !.route = "analyze", !.body = body, !.pc = "awaitMood",
                           !.detected = detected,
                           !.nVision = IF detected.st = "chat" THEN 1 ELSE 0]]
  /\ StoreUnchanged /\ ConfigUnchanged /\ ClientUnchanged /\ UNCHANGED now

\* the vision request of r ends
VisionSettles(r, outcome) ==
  /\ req[r].detected.st = "chat"
  /\ req' = [req EXCEPT
       ![r].detected = analyzeMoodFromImageOnCompletion(outcome),
       ![r].nVision = req[r].nVision
                        + Issued(analyzeMoodFromImageOnCompletion(outcome), "chat")]
  /\ StoreUnchanged /\ ConfigUnchanged /\ ClientUnchanged /\ UNCHANGED now

\* the handler without its catch block: a rejected analyzeMoodFromImage
\* leaves the request without an answer
PostAnalyzeMoodRespond_noCatch(r) ==
  /\ req[r].pc = "awaitMood"
  /\ req[r].detected.st = "fulfilled"
  /\ req' = [req EXCEPT ![r] = [@ EXCEPT !.pc = "done", !.status = OkStatus,
                                         !.json = [mood |-> req[r].detected.v]]]
  /\ StoreUnchanged /\ ConfigUnchanged /\ ClientUnchanged /\ UNCHANGED now

\* POST /api/analyze-mood from `await analyzeMoodFromImage` to its response
PostAnalyzeMoodRespond(r) ==
  /\ req[r].pc = "awaitMood"
  /\ req[r].detected.st \in {"fulfilled", "rejected"}
  /\ req' = [req EXCEPT ![r] =
       IF req[r].detected.st = "rejected"
         THEN [@ EXCEPT !.pc = "done", !.status = CatchStatus,
                        !.message = req[r].detected.err]
         ELSE [@ EXCEPT !.pc = "done", !.status = OkStatus,
                        !.json = [mood |-> req[r].detected.v]]]
  /\ StoreUnchanged /\ ConfigUnchanged /\ ClientUnchanged /\ UNCHANGED now

\* GET /api/moodboards/:shareId up to `await storage.getMoodboardByShareId`
GetMoodboards(r, shareId) ==
  /\ CanArrive(r)
  /\ req' = [req EXCEPT ![r] =
       [@ EXCEPT !.route = "fetch", !.shareId = shareId, !.pc = "awaitLookup",
                 !.moodboard = getMoodboardByShareId(shareId)]]
  /\ StoreUnchanged /\ ConfigUnchanged /\ ClientUnchanged /\ UNCHANGED now

\* the handler without its `if (!moodboard)` branch: reading a field of
\* undefined throws, and the catch block answers
GetMoodboardsRespond_noCheck(r) ==
  /\ req[r].pc = "awaitLookup"
  /\ req' = [req EXCEPT ![r] =
       IF req[r].moodboard = Undefined
         THEN [@ EXCEPT !.pc = "done", !.status = CatchStatus,
                        !.message = "Failed to fetch moodboard"]
         ELSE [@ EXCEPT !.pc = "done", !.status = OkStatus,
                        !.json = MoodboardResponse(req[r].moodboard)]]
  /\ StoreUnchanged /\ ConfigUnchanged /\ ClientUnchanged /\ UNCHANGED now

\* GET /api/moodboards/:shareId from the await to its response
GetMoodboardsRespond(r) ==
  /\ req[r].pc = "awaitLookup"
  /\ req' = [req EXCEPT ![r] =
       IF req[r].moodboard = Undefined
         THEN [@ EXCEPT !.pc = "done", !.status = NotFoundStatus,
                        !.message = "Moodboard not found"]
         ELSE [@ EXCEPT !.pc = "done", !.status = OkStatus,
                        !.json = MoodboardResponse(req[r].moodboard)]]
  /\ StoreUnchanged /\ ConfigUnchanged /\ ClientUnchanged /\ UNCHANGED now

(* --------------------- client/src/lib/opencv-processor.ts ------------- *)

\* a FaceAnalysis; contrast and edgeIntensity are in tenths (5 is 0.5)
FaceAnalysis(faceDetected, faceCount, avgBrightness, nColors, edgeIntensity, contrast) ==
  [faceDetected |-> faceDetected, faceCount |-> faceCount,
   avgBrightness |-> avgBrightness, dominantColors |-> nColors,
   edgeIntensity |-> edgeIntensity, contrast |-> contrast]

getDefaultAnalysis == FaceAnalysis(FALSE, 0, 128, 1, 3, 5)

\* fallbackAnalysis when the canvas can be read: the brightness of the pixels
fallbackAnalysis(avgBrightness) ==
  FaceAnalysis(TRUE, 1, avgBrightness, 2, 3, IF avgBrightness > 128 THEN 7 ELSE 4)

\* performImageAnalysis: the statistics OpenCV measured
performImageAnalysis(avgBrightness, contrast, edgeIntensity) ==
  FaceAnalysis(TRUE, 1, avgBrightness, 3, edgeIntensity, contrast)

\* the brightness values around the thresholds of the heuristic, the contrasts
\* and the edge intensities (in tenths) around theirs
Brightnesses == {0, 79, 80, 99, 100, 128, 150, 151, 255}
Contrasts == {3, 4, 5, 6, 7}
EdgeIntensities == {3, 4, 5}

\* what analyzeFacialFeatures can return
Analyses ==
  {getDefaultAnalysis}
    \cup {fallbackAnalysis(b) : b \in Brightnesses}
    \cup {performImageAnalysis(b, c, e) :
            b \in Brightnesses, c \in Contrasts, e \in EdgeIntensities}

\* getMoodFromAnalysis without the branch for medium brightness
getMoodFromAnalysis_noMedium(analysis) ==
  IF analysis.avgBrightness > 150 /\ analysis.contrast > 6 THEN "happy"
  ELSE IF analysis.avgBrightness < 80 /\ analysis.contrast < 4 THEN "peaceful"
  ELSE IF analysis.edgeIntensity > 4 THEN "excited"
  ELSE "peaceful"

getMoodFromAnalysis(analysis) ==
  IF analysis.avgBrightness > 150 /\ analysis.contrast > 6 THEN "happy"
  ELSE IF analysis.avgBrightness < 80 /\ analysis.contrast < 4 THEN "peaceful"
  ELSE IF analysis.edgeIntensity > 4 THEN "excited"
  ELSE IF analysis.avgBrightness >= 100 /\ analysis.avgBrightness <= 150
    THEN "motivated"
  ELSE "peaceful"

\* img.onload of the image upload, from `await analyzeFacialFeatures(img)` on:
\* the analysis is kept and the heuristic names its mood
ImageOnLoad(analysis) ==
  /\ cvInsights' = analysis
  /\ cvMood' = getMoodFromAnalysis(analysis)
  /\ UNCHANGED <<moodboards, shareIdMap, currentId, created, req, now>>
  /\ ConfigUnchanged

(* ------------------- client/src/components/mood-input.tsx ------------- *)

\* handleSubmit: the data it passes to generateMoodboard.mutate, Undefined when
\* it shows the "Mood Required" toast and sends nothing
handleSubmit(mood) ==
  IF trim(mood) = <<>> THEN Undefined ELSE [mood |-> JsString(trim(mood))]

\* the client receives the answer of analyze-mood request q: onSuccess calls
\* onMoodDetected(result.mood), handleMoodDetected calls handleSubmit, and the
\* mutation posts the generate request r
OnMoodDetected(q, r) ==
  /\ req[q].route = "analyze" /\ req[q].pc = "done" /\ req[q].status = OkStatus
  /\ handleSubmit(req[q].json.mood) # Undefined
  /\ PostMoodboards(r, handleSubmit(req[q].json.mood).mood)

\* the times `new Date()` can return: the time of the last call, or a later one
Dates == {now, now + 1}

(* --------------------------- specification ---------------------------- *)

\* the state after `new MemStorage()`; the credentials are read from the
\* environment once, when the module is loaded
Init ==
  /\ moodboards = <<>>
  /\ shareIdMap = [s \in {} |-> 0]
  /\ currentId = 1
  /\ UNSPLASH_ACCESS_KEY \in {"", "key"}
  /\ apiKey \in {"", "key"}
  /\ now = 0
  /\ req = [r \in Req |-> NoRequest]
  /\ created = <<>>
  /\ cvInsights = Undefined
  /\ cvMood = ""

\* the answers of the external services in Spec: each service either fails or
\* gives its usual answer, and the clock advances between two creates
UsualFetchOutcomes == {"notOk", "ok"}
UsualJsonOutcomes == {[kind |-> "results", n |-> PerPage]}
UsualQuoteOutcomes == {ChatThrow, ChatContent(<<" ", "B", "e", ".", "\n">>)}
UsualVisionOutcomes == {ChatThrow, ChatContent(<<"E","x","c","i","t","e","d","!">>)}
UsualDates == {now + 1}

\* concurrent requests
Next ==
  \/ \E r \in Req, body \in GenerateBodies : PostMoodboards(r, body)
  \/ \E r \in Req, outcome \in UsualFetchOutcomes : UnsplashFetchSettles(r, outcome)
  \/ \E r \in Req, data \in UsualJsonOutcomes : UnsplashJsonSettles(r, data)
  \/ \E r \in Req, outcome \in UsualQuoteOutcomes : QuoteSettles(r, outcome)
  \/ \E r \in Req, shareId \in ShareIds, date \in UsualDates : PostMoodboardsResume(r, shareId, date)
  \/ \E r \in Req : PostMoodboardsRespond(r)
  \/ \E r \in Req, body \in AnalyzeBodies : PostAnalyzeMood(r, body)
  \/ \E r \in Req, outcome \in UsualVisionOutcomes : VisionSettles(r, outcome)
  \/ \E r \in Req : PostAnalyzeMoodRespond(r)
  \/ \E r \in Req, shareId \in LookupIds : GetMoodboards(r, shareId)
  \/ \E r \in Req : GetMoodboardsRespond(r)

Spec == Init /\ [][Next]_vars

\* the bodies of SpecIO: those of Spec and the longest mood the schema accepts
GenerateBodiesIO ==
  GenerateBodies \cup {JsString(Long(MaxMoodLen)), JsString(ConstructorKey)}

\* the first request alone, with every answer of the external services
NextIO ==
  \/ \E body \in GenerateBodiesIO : PostMoodboards(1, body)
  \/ \E outcome \in FetchOutcomes : UnsplashFetchSettles(1, outcome)
  \/ \E data \in JsonOutcomes : UnsplashJsonSettles(1, data)
  \/ \E outcome \in QuoteOutcomes : QuoteSettles(1, outcome)
  \/ \E shareId \in ShareIds, date \in Dates : PostMoodboardsResume(1, shareId, date)
  \/ PostMoodboardsRespond(1)
  \/ \E body \in AnalyzeBodies : PostAnalyzeMood(1, body)
  \/ \E outcome \in VisionOutcomes : VisionSettles(1, outcome)
  \/ PostAnalyzeMoodRespond(1)
  \/ \E shareId \in LookupIds : GetMoodboards(1, shareId)
  \/ GetMoodboardsRespond(1)

SpecIO == Init /\ [][NextIO]_vars

\* the client's image flow: the first request analyzes an image, the second is
\* the generate request the client sends with the label it received
NextClient ==
  \/ \E body \in AnalyzeBodies : PostAnalyzeMood(1, body)
  \/ \E outcome \in VisionOutcomes : VisionSettles(1, outcome)
  \/ PostAnalyzeMoodRespond(1)
  \/ OnMoodDetected(1, 2)
  \/ \E outcome \in UsualFetchOutcomes : UnsplashFetchSettles(2, outcome)
  \/ \E data \in UsualJsonOutcomes : UnsplashJsonSettles(2, data)
  \/ \E outcome \in UsualQuoteOutcomes : QuoteSettles(2, outcome)
  \/ \E shareId \in ShareIds, date \in UsualDates : PostMoodboardsResume(2, shareId, date)
  \/ PostMoodboardsRespond(2)

SpecClient == Init /\ [][NextClient]_vars

\* the moods of SpecMood: the table keys, keys in other letter cases, moods that
\* contain a key or are contained in one, unknown moods, and the lower-case
\* names of the properties every object inherits
MoodBodies ==
  {JsString(<<"h","a","p","p","y">>),
   JsString(<<"p","e","a","c","e","f","u","l">>),
   JsString(<<"e","x","c","i","t","e","d">>),
   JsString(<<"s","a","d">>),
   JsString(<<"a","n","g","r","y">>),
   JsString(<<"a","n","x","i","o","u","s">>),
   JsString(<<"m","o","t","i","v","a","t","e","d">>),
   JsString(<<"c","r","e","a","t","i","v","e">>),
   JsString(<<"n","o","s","t","a","l","g","i","c">>),
   JsString(<<"d","r","e","a","m","y">>),
   JsString(<<"H","A","P","P","Y">>),
   JsString(<<"S","a","d">>),
   JsString(<<"D","r","E","a","M","y">>),
   JsString(<<"P","e","a","c","e","f","u","l">>),
   JsString(<<"A","N","X","I","O","U","S">>),
   JsString(<<"s","o"," ","h","a","p","p","y">>),
   JsString(<<"h","a","p">>),
   JsString(<<"a">>),
   JsString(<<"s","a","d","n","e","s","s">>),
   JsString(<<"s","a","d"," ","a","n","d"," ","h","a","p","p","y">>),
   JsString(<<"E","x","c","i","t","e","d","l","y">>),
   JsString(<<"x">>),
   JsString(<<"y">>),
   JsString(<<"e","d">>),
   JsString(<<"N","o","s","t","a","l","g","i","a">>),
   JsString(<<"z","z","z">>),
   JsString(<<"m","a","d">>),
   JsString(<<"c","o","n","s","t","r","u","c","t","o","r">>),
   JsString(<<"_","_","p","r","o","t","o","_","_">>)}

\* one generate request with every kind of mood
NextMood ==
  \/ \E body \in MoodBodies : PostMoodboards(1, body)
  \/ \E outcome \in UsualFetchOutcomes : UnsplashFetchSettles(1, outcome)
  \/ \E data \in UsualJsonOutcomes : UnsplashJsonSettles(1, data)
  \/ \E outcome \in UsualQuoteOutcomes : QuoteSettles(1, outcome)
  \/ \E shareId \in ShareIds, date \in UsualDates : PostMoodboardsResume(1, shareId, date)
  \/ PostMoodboardsRespond(1)

SpecMood == Init /\ [][NextMood]_vars

\* the client analyzes uploaded images
NextCV == \E analysis \in Analyses : ImageOnLoad(analysis)

SpecCV == Init /\ [][NextCV]_vars

\* an external call request r is waiting for ends: the image search answers and
\* its body is read, and a chat call that is still out when its client's
\* timeout expires throws. A chat call that completed before is no longer out,
\* so this obliges every call to end and prefers no ending
ExternalCallEnds(r) ==
  \/ \E outcome \in UsualFetchOutcomes : UnsplashFetchSettles(r, outcome)
  \/ \E data \in UsualJsonOutcomes : UnsplashJsonSettles(r, data)
  \/ QuoteSettles(r, ChatThrow)
  \/ VisionSettles(r, ChatThrow)

\* the Promise.all request r awaits has settled
AllSettled(r) ==
  /\ req[r].pc = "awaitAll"
  /\ PromiseAll(req[r].images, req[r].quote).st \in {"fulfilled", "rejected"}

\* the generate handler of r runs on from `await Promise.all`
HandlerResumes(r) ==
  \E shareId \in ShareIds, date \in UsualDates : PostMoodboardsResume(r, shareId, date)

\* the handler of r runs on from its last await to its response
HandlerResponds(r) ==
  \/ PostMoodboardsRespond(r)
  \/ PostAnalyzeMoodRespond(r)
  \/ GetMoodboardsRespond(r)

\* the concurrent requests of Spec under the scheduling the event loop gives:
\* a call that is out ends, and a handler whose awaited promise has settled is
\* resumed; nothing obliges a request to arrive. The last conjunct is
\* WF_vars(HandlerResumes(r)) with ENABLED written out as AllSettled(r)
SpecLive ==
  /\ Init /\ [][Next]_vars
  /\ \A r \in Req :
       /\ WF_vars(ExternalCallEnds(r))
       /\ WF_vars(HandlerResponds(r))
       /\ ([]<>(~AllSettled(r)) \/ []<><<HandlerResumes(r)>>_vars)

(* ------------------------------- claims ------------------------------- *)

\* the shareIds createMoodboard has been called with
UsedShareIds == {created[i].shareId : i \in 1..Len(created)}

ShareIdsDistinct ==
  \A i, j \in 1..Len(created) :
    created[i].shareId = created[j].shareId => i = j

\* C1: when the shareIds of all createMoodboard calls so far are pairwise
\* distinct, getMoodboardByShareId(r.shareId) returns, for every record r a
\* create returned, a record equal to r in every field, however many creates
\* followed it.
C1_CreateThenGetByShareId ==
  ShareIdsDistinct =>
    \A i \in 1..Len(created) :
      getMoodboardByShareId(created[i].shareId) = created[i]

\* a record is looked up after a later create with another shareId
C1_Witness ==
  /\ Len(created) >= 2
  /\ ShareIdsDistinct
  /\ getMoodboardByShareId(created[1].shareId) = created[1]
  /\ created[1].createdAt # created[2].createdAt

\* C2: in every reachable state no two stored records have the same shareId.
C2_ShareIdsUnique ==
  \A a, b \in DOMAIN moodboards :
    moodboards[a].shareId = moodboards[b].shareId => a = b

\* C3: no two stored records have the same id; the first createMoodboard call
\* gets id 1 and every later call an id one greater than the call before it,
\* whatever the interleaving of the requests.
C3_IdsSequential ==
  /\ \A i \in 1..Len(created) : created[i].id = i
  /\ \A a, b \in DOMAIN moodboards : moodboards[a].id = moodboards[b].id => a = b
  /\ Cardinality(DOMAIN moodboards) = Len(created)
  /\ currentId = Len(created) + 1

\* two requests were in flight together, and the one that arrived second
\* reached createMoodboard first
C3_Witness ==
  /\ Len(created) = 2
  /\ req[2].moodboard = created[1]
  /\ req[1].moodboard = created[2]
  /\ created[1].id = 1 /\ created[2].id = 2

\* C4: in every state another request can observe, each shareId of the index
\* maps to an id that has a record in the primary map, and the shareId of each
\* record of the primary map is in the index.
C4_MapsAgree ==
  /\ \A s \in DOMAIN shareIdMap : shareIdMap[s] \in DOMAIN moodboards
  /\ \A id \in DOMAIN moodboards : moodboards[id].shareId \in DOMAIN shareIdMap

\* a create has just run while another request is suspended at an await
C4_Witness ==
  \E r, q \in Req :
    /\ req[r].pc = "awaitCreate"
    /\ req[q].pc \in {"awaitAll", "awaitLookup", "awaitMood"}
    /\ moodboards # <<>> /\ DOMAIN shareIdMap # {}

\* C5: a record createMoodboard returned stays what getMoodboard returns for its
\* id in every later state: no step changes or removes a stored record, and the
\* number of stored records never decreases.
C5_RecordsNeverChange ==
  /\ [](\A i \in 1..Len(created) : getMoodboard(created[i].id) = created[i])
  /\ [][/\ \A id \in DOMAIN moodboards :
             id \in DOMAIN moodboards' /\ moodboards'[id] = moodboards[id]
        /\ Cardinality(DOMAIN moodboards') >= Cardinality(DOMAIN moodboards)]_vars

\* a record was created, then a different one, and the first is still stored
C5_Witness ==
  /\ Len(created) = 2
  /\ getMoodboard(1) = created[1]
  /\ created[2].mood # created[1].mood
  /\ \A r \in Req : req[r].pc = "done"

\* a body with no mood, a non-string mood, an empty mood or a mood of more than
\* 100 characters
InvalidMood(body) ==
  body.t # "string" \/ Len(body.s) = 0 \/ Len(body.s) > 100

\* C6: a generate request with an invalid mood is answered with an error, has
\* issued no call to the image-search or text-generation service, and no step of
\* it changes the store (either map, or the next id).
C6_InvalidMoodRejected ==
  /\ [](\A r \in Req :
          req[r].route = "generate" /\ InvalidMood(req[r].body) =>
            /\ req[r].pc = "done"
            /\ req[r].status >= 400
            /\ req[r].nImage = 0 /\ req[r].nText = 0
            /\ req[r].images.st = "none" /\ req[r].quote.st = "none"
            /\ req[r].moodboard = Undefined)
  /\ [][\A r \in Req :
          req'[r].route = "generate" /\ InvalidMood(req'[r].body)
            /\ req'[r] # req[r]
          => UNCHANGED <<moodboards, shareIdMap, currentId>>]_vars

\* an invalid generate request was answered while the store held a record
C6_Witness ==
  \E r \in Req :
    /\ req[r].route = "generate" /\ InvalidMood(req[r].body)
    /\ req[r].pc = "done" /\ req[r].status = CatchStatus
    /\ moodboards # <<>>

\* C7: a generate request that fails validation is answered with a client
\* error (4xx), a downstream failure with a server error (5xx).
C7_ValidationIsClientError ==
  \A r \in Req :
    req[r].route = "generate" /\ req[r].pc = "done" =>
      /\ InvalidMood(req[r].body) => req[r].status \in 400..499
      /\ ~InvalidMood(req[r].body) /\ req[r].status # OkStatus
           => req[r].status \in 500..599

\* C8: for every shareId no createMoodboard call has used, in every reachable
\* state, getMoodboardByShareId returns absent and a GET for it is answered 404.
C8_UnknownShareIdNotFound ==
  /\ \A s \in LookupIds \ UsedShareIds : getMoodboardByShareId(s) = Undefined
  /\ \A r \in Req :
       /\ req[r].route = "fetch" /\ req[r].shareId \notin UsedShareIds
            => req[r].moodboard = Undefined
       /\ req[r].route = "fetch" /\ req[r].shareId \notin UsedShareIds
            /\ req[r].pc = "done"
            => req[r].status = NotFoundStatus

\* a GET for an unused shareId was answered while the store held a record, and
\* another was answered while the store was empty
C8_Witness ==
  /\ created # <<>>
  /\ \E r \in Req :
       /\ req[r].route = "fetch" /\ req[r].pc = "done"
       /\ req[r].shareId \in ShareIds \ UsedShareIds
       /\ req[r].status = NotFoundStatus

UnsplashNotConfigured == "Unsplash API key not configured"
OpenAINotConfigured == "OpenAI API key not configured"

\* a valid request of the route has been taken up
ValidGenerate(r) == req[r].route = "generate" /\ ~InvalidMood(req[r].body)
ValidAnalyze(r) == req[r].route = "analyze" /\ req[r].body.t = "string"

C10_ImageFailureFallsBack ==
  [][\A r \in Req :
       UNSPLASH_ACCESS_KEY # "" =>
         /\ \A outcome \in FetchOutcomes \ {"ok"} :
              UnsplashFetchSettles(r, outcome)
                => req'[r].images = Fulfilled(FallbackImages)
         /\ \A data \in {d \in JsonOutcomes : d.kind # "results"} :
              UnsplashJsonSettles(r, data)
                => req'[r].images = Fulfilled(FallbackImages)]_vars

\* the credential is configured and a generate request stored the placeholders
C10_Witness ==
  /\ UNSPLASH_ACCESS_KEY # ""
  /\ Len(FallbackImages) = 4
  /\ \E r \in Req :
       /\ req[r].images = Fulfilled(FallbackImages)
       /\ req[r].pc = "done" /\ req[r].status = OkStatus
       /\ req[r].json.images = FallbackImages

\* the answers of the text-generation call that carry no quote: it throws, the
\* response has no choices, or the content is null, empty or blank
QuoteFailures ==
  {ChatThrow, ChatNoChoices, ChatNull, ChatContent(<<>>), ChatContent(<<" ">>)}

VisionFailures ==
  {ChatThrow, ChatNoChoices, ChatNull, ChatContent(<<>>), ChatContent(<<" ">>)}

C13_LabelIsLowerCaseWord ==
  \A r \in Req :
    req[r].route = "analyze" /\ req[r].detected.st = "fulfilled"
    => /\ req[r].detected.v # <<>>
       /\ \A i \in 1..Len(req[r].detected.v) : isLowerLetter(req[r].detected.v[i])

\* the text before the first space, tab or newline, leading whitespace skipped
RECURSIVE UntilWhiteSpace(_)
UntilWhiteSpace(s) ==
  IF s = <<>> \/ Head(s) \in WhiteSpace THEN <<>>
  ELSE <<Head(s)>> \o UntilWhiteSpace(Tail(s))

FirstWhitespaceToken(s) == UntilWhiteSpace(trimStart(s))

\* C14: for every response text of the vision service that is not blank, the
\* label analyzeMoodFromImage returns is the first whitespace-delimited token
\* of the text (delimited by spaces, tabs or newlines), lower-cased, with every
\* character that is not a letter removed.
C14_LabelIsFirstWhitespaceToken ==
  [][\A r \in Req : \A outcome \in VisionOutcomes :
       outcome.kind = "content" /\ trim(outcome.content) # <<>>
         /\ VisionSettles(r, outcome)
       => req'[r].detected =
            Fulfilled(stripNonLower(toLowerCase(FirstWhitespaceToken(outcome.content))))]_vars

\* C15: every label an analyze-mood request is answered with is accepted
\* downstream: the client sends it as the mood of a generate request, the
\* request passes validation and is answered with a stored moodboard of that
\* mood, whose colors and playlist are the mappers' values.
C15_DetectedLabelAccepted ==
  /\ \A q \in Req :
       req[q].route = "analyze" /\ req[q].pc = "done" /\ req[q].status = OkStatus
       => /\ handleSubmit(req[q].json.mood) # Undefined
          /\ generateMoodboardSchema(JsString(req[q].json.mood)) = ""
  /\ \A r \in Req :
       req[r].route = "generate" /\ req[r].pc = "done"
       => /\ req[r].status = OkStatus
          /\ getMoodboard(req[r].json.id).mood = req[r].body.s
          /\ req[r].json.colors = getColorsForMood(req[r].body.s)

\* the generate requests that have been answered with success
Succeeded == {r \in Req : req[r].route = "generate" /\ req[r].pc = "done"
                            /\ req[r].status = OkStatus}
\* the generate requests that have been answered with an error
Failed == {r \in Req : req[r].route = "generate" /\ req[r].pc = "done"
                         /\ req[r].status # OkStatus}
\* the generate requests that have stored their record and not yet answered
Storing == {r \in Req : req[r].route = "generate" /\ req[r].pc = "awaitCreate"}

\* the calls of createMoodboard that returned the record request r holds
InsertedBy(r) == {i \in 1..Len(created) : created[i] = req[r].moodboard}

\* C16 as stated: a generate request answered with success has inserted exactly
\* one record, one answered with an error none, and in every reachable state
\* the number of stored records equals the number of generate requests that
\* were answered with success.
C16_RecordsEqualSuccesses ==
  /\ \A r \in Succeeded : Cardinality(InsertedBy(r)) = 1
  /\ \A r \in Failed : req[r].moodboard = Undefined
  /\ Cardinality(DOMAIN moodboards) = Cardinality(Succeeded)

\* C16 as amended: a generate request answered with success has inserted
\* exactly one record, one answered with an error none; in every reachable
\* state the number of stored records equals the number of generate requests
\* answered with success plus the number of those that have inserted their
\* record and are suspended before sending their response.
C16_OneRecordPerSuccess ==
  /\ \A r \in Succeeded \cup Storing :
       /\ Cardinality(InsertedBy(r)) = 1
       /\ getMoodboard(req[r].moodboard.id) = req[r].moodboard
  /\ \A r, q \in Succeeded \cup Storing : r # q => InsertedBy(r) # InsertedBy(q)
  /\ \A r \in Failed : req[r].moodboard = Undefined
  /\ \A r \in Req : req[r].moodboard = Undefined => req[r].pc # "awaitCreate"
  /\ Len(created) = Cardinality(Succeeded) + Cardinality(Storing)
  /\ Cardinality(DOMAIN moodboards) = Cardinality(Succeeded) + Cardinality(Storing)

\* one generate request was answered with success and another with an error,
\* and the store holds one record
C16_Witness ==
  /\ Cardinality(Succeeded) = 1 /\ Cardinality(Failed) = 1
  /\ Cardinality(DOMAIN moodboards) = 1
  /\ \E r \in Failed : req[r].message # ""

\* C17: every stored record has a non-empty mood, a non-empty quote, a
\* non-empty list of images, a non-empty list of colors and a non-empty
\* shareId, whatever the external services answered.
C17_RecordFieldsNonEmpty ==
  \A id \in DOMAIN moodboards :
    /\ moodboards[id].mood # <<>>
    /\ moodboards[id].quote # <<>>
    /\ moodboards[id].images # <<>>
    /\ moodboards[id].colors.type = "array"
    /\ moodboards[id].colors.items # <<>>
    /\ moodboards[id].shareId # ""

C19_ExactKeyPalette ==
  \A i \in 1..Len(created) : \A k \in 1..Len(moodColorMap) :
    toLowerCase(created[i].mood) = moodColorMap[k].key
      => created[i].colors = JsArray(moodColorMap[k].colors)

\* a record was created for the mood "DrEaMy" with the palette of "dreamy"
C19_Witness ==
  \E i \in 1..Len(created) :
    /\ created[i].mood = <<"D","r","E","a","M","y">>
    /\ created[i].colors.items = <<"#CE93D8", "#F8BBD9", "#C5CAE9", "#DCEDC8">>

\* the keys of the color table that contain the lower-cased mood or are
\* contained in it
PartialKeys(mood) ==
  {k \in 1..Len(moodColorMap) :
     includes(toLowerCase(mood), moodColorMap[k].key)
       \/ includes(moodColorMap[k].key, toLowerCase(mood))}

IsColorKey(mood) ==
  \E k \in 1..Len(moodColorMap) : moodColorMap[k].key = toLowerCase(mood)

\* C20: for every mood that (lower-cased) is not a key of the color table but
\* contains a key as a substring or is a substring of a key, the colors
\* getColorsForMood gives the record are the palette of the first such key in
\* table order (happy, peaceful, excited, sad, angry, anxious, motivated,
\* creative, nostalgic, dreamy).
C20_FirstPartialKeyPalette ==
  \A i \in 1..Len(created) :
    ~IsColorKey(created[i].mood) /\ PartialKeys(created[i].mood) # {}
      => \E k \in PartialKeys(created[i].mood) :
           /\ \A j \in PartialKeys(created[i].mood) : k <= j
           /\ created[i].colors = JsArray(moodColorMap[k].colors)

\* a record was created for "sad and happy" with the palette of "happy", the
\* earlier of the two keys in the table, or for "hap" with that palette
C20_Witness ==
  \E i \in 1..Len(created) :
    /\ created[i].mood \in {<<"s","a","d"," ","a","n","d"," ","h","a","p","p","y">>,
                            <<"h","a","p">>}
    /\ moodColorMap[1].key = <<"h","a","p","p","y">>
    /\ created[i].colors = JsArray(moodColorMap[1].colors)

MoodLabels == {"happy", "peaceful", "excited", "motivated"}

\* C30 as stated: for the default analysis values (average brightness 128,
\* contrast 0.5, edge intensity 0.3) getMoodFromAnalysis returns "peaceful",
\* and for every analysis it returns one of happy, peaceful, excited, motivated.
C30_DefaultAnalysisIsPeaceful ==
  /\ cvInsights = getDefaultAnalysis => cvMood = "peaceful"
  /\ cvInsights # Undefined => cvMood \in MoodLabels

\* C30 as amended: for the default analysis values (average brightness 128,
\* contrast 0.5, edge intensity 0.3) getMoodFromAnalysis returns "motivated",
\* the label of medium brightness, and for every analysis it returns one of
\* happy, peaceful, excited, motivated.
C30_DefaultAnalysisIsMotivated ==
  /\ cvInsights # Undefined
       /\ cvInsights.avgBrightness = 128 /\ cvInsights.contrast = 5
       /\ cvInsights.edgeIntensity = 3
     => cvMood = "motivated"
  /\ cvInsights # Undefined => cvMood \in MoodLabels

\* the image could not be analyzed and the heuristic has named a mood for the
\* default analysis
C30_Witness ==
  /\ cvInsights = getDefaultAnalysis
  /\ cvInsights.faceDetected = FALSE
  /\ cvMood = "motivated"

\* C21: for every mood that (lower-cased) equals no key of the color table,
\* contains no key and is contained in no key, the colors getColorsForMood
\* gives the record are the default palette (#42A5F5, #66BB6A, #FFA726, #AB47BC).
C21_NoMatchDefaultPalette ==
  \A i \in 1..Len(created) :
    ~IsColorKey(created[i].mood) /\ PartialKeys(created[i].mood) = {}
      => created[i].colors =
           JsArray(<<"#42A5F5", "#66BB6A", "#FFA726", "#AB47BC">>)

\* the keys of the playlist table that contain the lower-cased mood or are
\* contained in it
PartialPlaylistKeys(mood) ==
  {k \in 1..Len(moodPlaylistMap) :
     includes(toLowerCase(mood), moodPlaylistMap[k].key)
       \/ includes(moodPlaylistMap[k].key, toLowerCase(mood))}

PlaylistKeys(mood) ==
  {k \in 1..Len(moodPlaylistMap) : moodPlaylistMap[k].key = toLowerCase(mood)}

\* C22: the playlist id getPlaylistForMood gives the record is the id of the
\* exact lower-cased key of its 8-key table, else the id of the first key in
\* table order that contains the mood or is contained in it, else the default
\* id 37i9dQZF1DX0XUsuxWHRQd; it is never absent, and a mood that is only a
\* color key (angry, anxious) gets the default id.
C22_PlaylistThreeCases ==
  \A i \in 1..Len(created) :
    LET mood == created[i].mood
        id == created[i].spotifyPlaylistId
    IN /\ id \notin {"", "null", "undefined"}
       /\ \A k \in PlaylistKeys(mood) : id = moodPlaylistMap[k].id
       /\ PlaylistKeys(mood) = {} /\ PartialPlaylistKeys(mood) # {}
            => \E k \in PartialPlaylistKeys(mood) :
                 /\ \A j \in PartialPlaylistKeys(mood) : k <= j
                 /\ id = moodPlaylistMap[k].id
       /\ PlaylistKeys(mood) = {} /\ PartialPlaylistKeys(mood) = {}
            => id = "37i9dQZF1DX0XUsuxWHRQd"
       /\ toLowerCase(mood) \in {<<"a","n","g","r","y">>, <<"a","n","x","i","o","u","s">>}
            => id = "37i9dQZF1DX0XUsuxWHRQd"

\* C23: a generate request issues its image-search call and its
\* text-generation call in its first step, before it awaits the result of
\* either (both calls when both credentials are configured), and createMoodboard
\* is called only after both calls have completed.
C23_CallsIssuedTogether ==
  /\ [](\A r \in Req :
          ValidGenerate(r) =>
            /\ req[r].nImage = IF UNSPLASH_ACCESS_KEY # "" THEN 1 ELSE 0
            /\ req[r].nText = IF apiKey # "" THEN 1 ELSE 0
            /\ req[r].images.st # "none" /\ req[r].quote.st # "none"
            /\ req[r].moodboard # Undefined =>
                 req[r].images.st = "fulfilled" /\ req[r].quote.st = "fulfilled")
  /\ [][moodboards' # moodboards =>
          \E r \in Req :
            /\ req[r].pc = "awaitAll" /\ req'[r].pc = "awaitCreate"
            /\ req[r].images.st = "fulfilled" /\ req[r].quote.st = "fulfilled"]_vars

\* a generate request is suspended with both calls in flight, and another has
\* stored its record after both of its calls completed
C23_Witness ==
  \E r, q \in Req :
    /\ req[r].pc = "awaitAll"
    /\ req[r].images.st = "fetch" /\ req[r].quote.st = "chat"
    /\ req[r].nImage = 1 /\ req[r].nText = 1
    /\ req[q].pc = "awaitCreate"
    /\ req[q].images.st = "fulfilled" /\ req[q].quote.st = "fulfilled"

\* C24: the completion of one call of a generate request writes its own result
\* only, a value that does not depend on whether the other call has completed,
\* and the stored record (or the error) is made of the two results: the outcome
\* is the same whichever call completes first.
C24_CompletionOrderIrrelevant ==
  /\ [][\A r \in Req :
          /\ \A outcome \in QuoteOutcomes :
               QuoteSettles(r, outcome) =>
                 /\ req'[r].images = req[r].images
                 /\ req'[r].quote = generateAIQuoteOnCompletion(req[r].body.s, outcome)
          /\ \A outcome \in FetchOutcomes :
               UnsplashFetchSettles(r, outcome) =>
                 /\ req'[r].quote = req[r].quote
                 /\ req'[r].images = fetchUnsplashImagesOnFetch(outcome)
          /\ \A data \in JsonOutcomes :
               UnsplashJsonSettles(r, data) =>
                 /\ req'[r].quote = req[r].quote
                 /\ req'[r].images = fetchUnsplashImagesOnJson(data)]_vars
  /\ [](\A r \in Req :
          /\ req[r].route = "generate" /\ req[r].moodboard # Undefined =>
               /\ req[r].moodboard.images = req[r].images.v
               /\ req[r].moodboard.quote = req[r].quote.v
          /\ ValidGenerate(r) /\ req[r].pc = "done" /\ req[r].status # OkStatus =>
               req[r].message = IF UNSPLASH_ACCESS_KEY = ""
                                  THEN UnsplashNotConfigured
                                  ELSE OpenAINotConfigured)

\* of two generate requests with the same mood, one has its images and not yet
\* its quote, the other its quote and not yet its images
C24_Witness ==
  \E r, q \in Req :
    /\ r # q /\ req[r].body = req[q].body
    /\ req[r].pc = "awaitAll" /\ req[q].pc = "awaitAll"
    /\ req[r].images.st = "fulfilled" /\ req[r].quote.st = "chat"
    /\ req[q].quote.st = "fulfilled" /\ req[q].images.st \in {"fetch", "json"}

\* C25: a generate request issues at most one image-search call and at most
\* one text-generation call, an analyze-mood request at most one vision call:
\* a call starts only in the first step of its request, and when it fails it is
\* not sent again.
C25_NoRetry ==
  /\ [](\A r \in Req :
          /\ req[r].nImage <= 1 /\ req[r].nText <= 1 /\ req[r].nVision <= 1
          /\ req[r].route # "generate" => req[r].nImage = 0 /\ req[r].nText = 0
          /\ req[r].route # "analyze" => req[r].nVision = 0)
  /\ [][\A r \in Req :
          /\ req'[r].images.st = "fetch" =>
               req[r].images.st = "fetch" \/ req[r].route = "none"
          /\ req'[r].quote.st = "chat" =>
               req[r].quote.st = "chat" \/ req[r].route = "none"
          /\ req'[r].detected.st = "chat" =>
               req[r].detected.st = "chat" \/ req[r].route = "none"
          /\ req[r].images.st = "json" => req'[r].images.st \in {"json", "fulfilled"}
          /\ req[r].route # "none" =>
               /\ req'[r].nImage = req[r].nImage
               /\ req'[r].nText = req[r].nText
               /\ req'[r].nVision = req[r].nVision
          /\ \A outcome \in FetchOutcomes :
               UnsplashFetchSettles(r, outcome) => req'[r].images.st # "fetch"
          /\ \A outcome \in QuoteOutcomes :
               QuoteSettles(r, outcome) => req'[r].quote.st = "fulfilled"
          /\ \A outcome \in VisionOutcomes :
               VisionSettles(r, outcome) => req'[r].detected.st = "fulfilled"]_vars

\* both calls of a generate request failed once and the request was answered
\* with the fallbacks; the vision call of an analyze-mood request failed once
C25_Witness ==
  \E r, q \in Req :
    /\ req[r].route = "generate" /\ req[r].pc = "done"
    /\ req[r].nImage = 1 /\ req[r].nText = 1
    /\ req[r].images = Fulfilled(FallbackImages)
    /\ req[r].quote = Fulfilled(fallbackQuote(req[r].body.s))
    /\ req[q].route = "analyze" /\ req[q].pc = "done" /\ req[q].nVision = 1
    /\ req[q].detected = Fulfilled(Peaceful)

\* C26: under every interleaving of the requests, the record a generate
\* request is answered with has the request's mood unmodified, the colors and
\* the playlist id the mappers give that mood, and the images and the quote of
\* the request's own calls.
C26_ResponseIsOwnRecord ==
  \A r \in Succeeded :
    /\ req[r].json.mood = req[r].body.s
    /\ req[r].json.colors = getColorsForMood(req[r].body.s)
    /\ req[r].json.spotifyPlaylistId = getPlaylistForMood(req[r].body.s)
    /\ req[r].json.images = req[r].images.v
    /\ req[r].json.quote = req[r].quote.v
    /\ req[r].json.shareId = req[r].shareId
    /\ req[r].json.id = req[r].moodboard.id
    /\ getMoodboard(req[r].json.id) = req[r].moodboard

\* two requests with different moods were in flight together, the one that
\* arrived first was stored last, and each was answered with its own record
C26_Witness ==
  /\ Succeeded = {1, 2}
  /\ req[1].json.mood = <<"h","a","p","p","y">> /\ req[2].json.mood = <<"S","a","d">>
  /\ req[1].json.id = 2 /\ req[2].json.id = 1
  /\ req[1].json.quote # req[2].json.quote
  /\ req[1].json.colors # req[2].json.colors

\* the position in the order of the createMoodboard calls of the record
\* request r holds
CreateOrder(r) == CHOOSE i \in 1..Len(created) : created[i] = req[r].moodboard

\* C27: ids follow the order in which the requests reach createMoodboard, not
\* the order in which they arrive: of two requests that have stored a record,
\* the one whose createMoodboard call came first has the smaller id.
C27_IdsFollowCreateOrder ==
  \A r, q \in Req :
    req[r].moodboard # Undefined /\ req[q].moodboard # Undefined
      /\ req[r].route = "generate" /\ req[q].route = "generate"
    => /\ InsertedBy(r) # {} /\ InsertedBy(q) # {}
       /\ (req[r].moodboard.id < req[q].moodboard.id)
            <=> (CreateOrder(r) < CreateOrder(q))

\* of two concurrent generate requests the one that arrived later was answered
\* with the smaller id
C27_Witness ==
  /\ req[1].route = "generate" /\ req[2].route = "generate"
  /\ req[1].pc = "done" /\ req[2].pc = "done"
  /\ req[1].status = OkStatus /\ req[2].status = OkStatus
  /\ req[2].json.id < req[1].json.id

Response(request) ==
  [pc |-> request.pc, status |-> request.status,
   message |-> request.message, json |-> request.json]

\* a request that has arrived has been answered
Answered(r) == req[r].pc = "done" /\ req[r].status \in {OkStatus, NotFoundStatus, CatchStatus}

\* C29: provided every external call ends, every generate, analyze-mood and
\* fetch-by-share-id request that arrives is eventually answered (success,
\* not-found or error), whatever the other requests do, and is answered once:
\* before the answer there is none, and after it nothing of it changes.
C29_EveryRequestAnsweredOnce ==
  /\ \A r \in Req : (req[r].route # "none") ~> Answered(r)
  /\ [](\A r \in Req : req[r].pc # "done" => req[r].status = NoRequest.status)
  /\ [][\A r \in Req : req[r].pc = "done" => Response(req'[r]) = Response(req[r])]_vars

\* a generate and an analyze-mood request ran concurrently, each made an
\* external call, and each has its answer
C29_Witness ==
  /\ \A r \in Req : req[r].route # "none" /\ Answered(r)
  /\ \E r1, r2 \in Req :
       /\ req[r1].route = "generate" /\ req[r1].nImage = 1
       /\ req[r2].route = "analyze" /\ req[r2].nVision = 1

====
